---- MODULE Spec2Model ----
(***************************************************************************)
(* Acoustic material-identification pipeline of sweepy.                    *)
(*                                                                         *)
(* The model follows lib/audioPipeline.ts (AudioPipeline, the singleton    *)
(* accessors getAudioPipeline / cleanupAudioPipeline) and the scan handler *)
(* ScanPage.startScan that drives it.  Every `await` of the code is a      *)
(* point where another scan, a timer or the platform may run, so each      *)
(* handler is cut into steps at its awaits; a program counter per scan     *)
(* invocation records where that invocation is suspended.                  *)
(*                                                                         *)
(* Time is discrete, one tick = 500 ms.  A timer holds the number of ticks *)
(* left until it is due; time does not advance while a timer is due.       *)
(***************************************************************************)
EXTENDS Integers, Sequences, FiniteSets, TLC

(***************************************************************************)
(* Bounds of the model.                                                    *)
(***************************************************************************)
NumScans == 2      \* scan invocations explored
MaxCtx == 3        \* audio contexts / media streams / pipeline objects ever created
MaxHead == 3       \* retained pairs of a profile whose magnitude is chosen freely
MaxMag == 2        \* largest magnitude of such a pair
MaxNow == 2        \* largest reading of the clock
MaxNameLen == 2    \* longest material name
MaxPeaks == 2      \* most peaks of a fingerprint given to the matcher
MaxCatalog == 6    \* most documents of the catalog at the submission
MaxMsgs == 3       \* most messages posted to the worklet port
MaxProcess == 3    \* most calls of process() of the worklet
MaxFrames == 2     \* most transform frames of a recording handed to the analysis

(***************************************************************************)
(* Program constants.  Durations are in seconds and delays in              *)
(* milliseconds, as in the code; Ticks converts milliseconds to ticks.     *)
(***************************************************************************)
AMBIENT_DURATION == 1
SWEEP_DURATION == 1
DEADLINE_EXTRA_S == 1    \* setTimeout(..., (duration + 1) * 1000)
SETTLE_DELAY_MS == 500   \* this.delay(500)
UI_DELAY_MS == 500       \* setTimeout(resolve, 500) in startScan
TickMs == 500            \* one tick of the model
SAMPLE_RATE == 44100
FFT_SIZE == 32768
FREQ_MIN == 1000
FREQ_MAX == 20000
STRIDE == 50             \* const sampleRate = 50: every 50th pair is retained
MAX_ENTRIES == 200       \* createMaterial: at most 200 persisted pairs
TOP_PEAKS == 5           \* .slice(0, 5)
TOLERANCE == 50          \* Hz tolerance of calculateFrequencySimilarity
SUBSTRING_TENTHS == 9        \* return 0.9
NAME_THRESHOLD_TENTHS == 7   \* nameSimilarity > 0.7
NAME_WEIGHT_TENTHS == 6      \* nameSimilarity * 0.6
FREQ_THRESHOLD_TENTHS == 6   \* freqSimilarity > 0.6
FREQ_WEIGHT_TENTHS == 4      \* freqSimilarity * 0.4
ACCEPT_TENTHS == 5           \* confidence > 0.5
MAX_MATCHES == 5             \* matches.slice(0, 5)

Ticks(ms) == ms \div TickMs
SETTLE_DELAY == Ticks(SETTLE_DELAY_MS)
UI_DELAY == Ticks(UI_DELAY_MS)

Scans == 1..NumScans
Res == 1..MaxCtx
Kinds == {"amb", "smp"}

VARIABLES
  pc,                    \* scan -> position of the invocation of startScan
  pipeline,              \* scan -> the AudioPipeline object its local `pipeline` refers to (0: none)
  isScanning,            \* isScanning state of the mounted ScanPage component
  mounted,               \* scan -> its ScanPage component is still the mounted one
  alive,                 \* the document has not been replaced by a full page load
  audioPipelineInstance, \* the module-level singleton reference (0: null)
  inst,                  \* pipeline object -> its fields audioContext, mediaStream, sweepBuffer
  ctxState,              \* audio context -> "none" | "running" | "closing" | "closed"
  streamState,           \* media stream -> "none" | "live" | "stopped"
  sess,                  \* scan -> kind -> state of that recordAudio call
  delayT,                \* scan -> ticks left of the delay it awaits (-1: none)
  playback,              \* scan -> the sweep buffer source has been started
  profile,               \* scan -> computeSTFT has produced the subtracted profile
  fingerprint,           \* scan -> the reduced frequencyData record has been built
  stored,                \* scan -> sessionStorage 'scanAudioData' was written by this scan
  cl                     \* scan -> its last cleanup() call: the object p it was made on,
                         \* the context c whose close() it awaits (0: not suspended)

appVars == <<isScanning, mounted, alive>>
pipeVars == <<audioPipelineInstance, inst, ctxState, streamState>>
scanVars == <<pc, pipeline, delayT, playback, profile, fingerprint, stored, cl>>
(***************************************************************************)
(* State of the parts that are specified on their own: the feature         *)
(* reduction of a scan and the persistence of its record, the catalog      *)
(* matcher and the submission of a material, the capture worklet.  Each    *)
(* specification leaves the variables of the other parts at their idle     *)
(* values.                                                                 *)
(***************************************************************************)
VARIABLES
  rprofile,              \* the FrequencyProfile handed to the reduction
  now,                   \* the reading of Date.now()
  frequencyData,         \* run -> the frequencyData record built by the scan page
  docData                \* run -> the frequencyData field written by createMaterial

VARIABLES
  query,                 \* materialName and frequencyData passed to matchMaterialToCatalog
  entry,                 \* one catalog item (scoring of a single item)
  score,                 \* nameSimilarity, freqSimilarity, confidence, matchReason of that item
  catalog,               \* the materialCatalog collection, in document order
  userDiscoveries,       \* the userDiscoveries documents of the user
  materialStats,         \* catalog id -> totalDiscoveries of its materialStats document
  mpc,                   \* position of the submission: form, matched, dialog, ...
  materialMatches,       \* the matches returned by the matcher / shown in the dialog
  matchedMaterialId      \* the candidate the user clicked in the dialog (0: none)

VARIABLES
  isRecording,           \* RecorderWorklet.isRecording
  sampleCount,           \* RecorderWorklet.sampleCount
  inbox,                 \* messages posted to the worklet port and not yet handled
  handled,               \* the start / stop messages handled so far, in order
  processed,             \* the blocks process() was called with, in order
  posted                 \* the data messages posted by the worklet, in order

VARIABLES
  sampleRecording,       \* the AudioRecording of the sweep handed to the analysis
  ambientRecording,      \* the AudioRecording of the ambient noise
  processedAudio         \* what runCompletePipeline computes from the two recordings

VARIABLES
  recorder,              \* one recordAudio call: its position, its duration, the number
                         \* of worklet messages the page has received
  chunks,                \* recordAudio's chunks array
  rawData,               \* the assembled rawData, as the pieces it was set from
  received               \* the data messages received by onmessage, in order, each
                         \* with whether the completion timer had fired

reducerVars == <<rprofile, now, frequencyData, docData>>
matchVars == <<query, entry, score, catalog, userDiscoveries, materialStats, mpc,
               materialMatches, matchedMaterialId>>
workletVars == <<isRecording, sampleCount, inbox, handled, processed, posted>>
analysisVars == <<sampleRecording, ambientRecording, processedAudio>>
recordVars == <<recorder, chunks, rawData, received>>
auxVars == <<reducerVars, matchVars, workletVars, analysisVars, recordVars>>

vars == <<pc, pipeline, isScanning, mounted, alive, audioPipelineInstance, inst,
          ctxState, streamState, sess, delayT, playback, profile, fingerprint,
          stored, cl, auxVars>>

\* what the reduction leaves alone
scanState == <<pc, pipeline, isScanning, mounted, alive, audioPipelineInstance, inst,
               ctxState, streamState, sess, delayT, playback, profile, fingerprint,
               stored, cl>>
notReducer == <<scanState, matchVars, workletVars, analysisVars, recordVars>>
notMatcher == <<scanState, reducerVars, workletVars, analysisVars, recordVars>>
notWorklet == <<scanState, reducerVars, matchVars, analysisVars, recordVars>>
notAnalysis == <<scanState, reducerVars, matchVars, workletVars, recordVars>>
notRecord == <<scanState, reducerVars, matchVars, analysisVars>>

NoSession == [status |-> "none", outcome |-> "none", anyChunk |-> FALSE, cleanups |-> 0,
              completionT |-> -1, deadlineT |-> -1, elapsed |-> 0, ctx |-> 0,
              settledAt |-> -1, after |-> 0]

NoPipeline == [audioContext |-> 0, mediaStream |-> 0, sweepBuffer |-> FALSE]

NoCleanup == [p |-> 0, c |-> 0, g |-> FALSE]

Min(S) == CHOOSE x \in S : \A y \in S : x <= y

\* the next unused identity of an audio context, media stream or pipeline object
FreshCtx == Min({c \in Res : ctxState[c] = "none"})
FreshStream == Min({s \in Res : streamState[s] = "none"})
UsedInst == {pipeline[i] : i \in Scans} \cup {audioPipelineInstance}
FreshInst == Min(Res \ UsedInst)
HasFresh == /\ \E c \in Res : ctxState[c] = "none"
            /\ \E s \in Res : streamState[s] = "none"
            /\ Res \ UsedInst # {}

Runs == 1..2             \* two reductions of the same profile

Undefined == -1          \* the value undefined of a field

NoProfile == [length |-> 0, head |-> <<>>]

NoFrequencyData ==
  [built |-> FALSE, frequencies |-> <<>>, magnitudes |-> <<>>,
   peakFrequency |-> Undefined, peakMagnitude |-> Undefined, topPeaks |-> <<>>,
   fftSize |-> 0, frequencyRange |-> [min |-> 0, max |-> 0],
   sampleRate |-> 0, timestamp |-> 0]

\* no profile was handed to the reduction and no run has a record
ReducerIdle ==
  /\ rprofile = NoProfile
  /\ now = 0
  /\ frequencyData = <<>>
  /\ docData = <<>>

NoFingerprint == [present |-> FALSE, topPeaks |-> <<>>]

NoItem == [materialName |-> <<>>, averageFrequencyData |-> NoFingerprint]

NoScore == [done |-> FALSE, nameSimilarity |-> 0, freqComputed |-> FALSE,
            freqSimilarity |-> 0, confidence |-> 0, matchReason |-> "none"]

MatcherIdle ==
  /\ query = [materialName |-> <<>>, frequencyData |-> NoFingerprint]
  /\ entry = NoItem
  /\ score = NoScore
  /\ catalog = <<>>
  /\ userDiscoveries = {}
  /\ materialStats = <<>>
  /\ mpc = "form"
  /\ materialMatches = <<>>
  /\ matchedMaterialId = 0

WorkletIdle ==
  /\ isRecording = FALSE
  /\ sampleCount = 0
  /\ inbox = <<>>
  /\ handled = <<>>
  /\ processed = <<>>
  /\ posted = <<>>

NoRecording == [length |-> 0, sampleRate |-> 0, frames |-> <<>>]

NoProcessedAudio == [done |-> FALSE]

AnalysisIdle ==
  /\ sampleRecording = NoRecording
  /\ ambientRecording = NoRecording
  /\ processedAudio = NoProcessedAudio

RecordIdle ==
  /\ recorder = [status |-> "none", duration |-> 0, delivered |-> 0]
  /\ chunks = <<>>
  /\ rawData = <<>>
  /\ received = <<>>

AuxIdle == ReducerIdle /\ MatcherIdle /\ WorkletIdle /\ AnalysisIdle /\ RecordIdle

ScanInit ==
  /\ pc = [i \in Scans |-> "idle"]
  /\ pipeline = [i \in Scans |-> 0]
  /\ isScanning = FALSE
  /\ mounted = [i \in Scans |-> FALSE]
  /\ alive = TRUE
  /\ audioPipelineInstance = 0
  /\ inst = [p \in Res |-> NoPipeline]
  /\ ctxState = [c \in Res |-> "none"]
  /\ streamState = [s \in Res |-> "none"]
  /\ sess = [i \in Scans |-> [k \in Kinds |-> NoSession]]
  /\ delayT = [i \in Scans |-> -1]
  /\ playback = [i \in Scans |-> FALSE]
  /\ profile = [i \in Scans |-> FALSE]
  /\ fingerprint = [i \in Scans |-> FALSE]
  /\ stored = [i \in Scans |-> FALSE]
  /\ cl = [i \in Scans |-> NoCleanup]

Init == ScanInit /\ AuxIdle


(***************************************************************************)
(* React state of ScanPage.  A setState issued by a handler whose          *)
(* component has been unmounted does not reach the mounted component.      *)
(***************************************************************************)
SetIsScanning(i, v) == isScanning' = IF mounted[i] THEN v ELSE isScanning

\* router.push away from /scan and back: a new ScanPage is mounted, with
\* isScanning = false; the module state and the running handlers survive.
Remount ==
  /\ alive
  /\ isScanning
  /\ isScanning' = FALSE
  /\ mounted' = [i \in Scans |-> FALSE]
  /\ UNCHANGED <<alive, pipeVars, scanVars, sess, auxVars>>

(***************************************************************************)
(* AudioPipeline.cleanup() on pipeline object p, called by scan i.         *)
(* this.workletNode is never assigned, so the first block is skipped.      *)
(* g: the caller is cleanupAudioPipeline, which clears the singleton       *)
(* reference once cleanup() has returned.                                  *)
(* close() of a context whose close is still pending: the state attribute  *)
(* may already read 'closed' (the close is skipped) or still 'running'     *)
(* (close() rejects with InvalidStateError and cleanup() throws).          *)
(***************************************************************************)
StopTracks_onlyNulls(p) == streamState

StopTracks(p) ==
  IF inst[p].mediaStream # 0
    THEN [streamState EXCEPT ![inst[p].mediaStream] = "stopped"]
    ELSE streamState

CleanupReturned(i, p, g, donePc) ==
  /\ inst' = [inst EXCEPT ![p].mediaStream = 0]
  /\ audioPipelineInstance' = IF g THEN 0 ELSE audioPipelineInstance
  /\ ctxState' = ctxState
  /\ pc' = [pc EXCEPT ![i] = donePc]
  /\ cl' = [cl EXCEPT ![i] = [p |-> p, c |-> 0, g |-> g]]

cleanup(i, p, g, donePc, waitPc, throwPc) ==
  LET c == inst[p].audioContext IN
  /\ streamState' = StopTracks(p)
  /\ IF c = 0
       THEN CleanupReturned(i, p, g, donePc)
       ELSE IF ctxState[c] = "running"
         THEN /\ inst' = [inst EXCEPT ![p].mediaStream = 0]
              /\ ctxState' = [ctxState EXCEPT ![c] = "closing"]
              /\ cl' = [cl EXCEPT ![i] = [p |-> p, c |-> c, g |-> g]]
              /\ pc' = [pc EXCEPT ![i] = waitPc]
              /\ UNCHANGED audioPipelineInstance
         ELSE \/ CleanupReturned(i, p, g, donePc)
              \/ /\ ctxState[c] = "closing"
                 /\ inst' = [inst EXCEPT ![p].mediaStream = 0]
                 /\ pc' = [pc EXCEPT ![i] = throwPc]
                 /\ cl' = [cl EXCEPT ![i] = [p |-> p, c |-> 0, g |-> g]]
                 /\ UNCHANGED <<audioPipelineInstance, ctxState>>

cleanupAudioPipeline(i, donePc, waitPc, throwPc) ==
  IF audioPipelineInstance = 0
    THEN /\ pc' = [pc EXCEPT ![i] = donePc]
         /\ UNCHANGED <<pipeVars, cl>>
    ELSE cleanup(i, audioPipelineInstance, TRUE, donePc, waitPc, throwPc)

\* the awaited close() resolves: this.audioContext = null, then (in
\* cleanupAudioPipeline) audioPipelineInstance = null
CloseResolved(i, donePc) ==
  /\ ctxState[cl[i].c] = "closing"
  /\ ctxState' = [ctxState EXCEPT ![cl[i].c] = "closed"]
  /\ inst' = [inst EXCEPT ![cl[i].p].audioContext = 0]
  /\ audioPipelineInstance' = IF cl[i].g THEN 0 ELSE audioPipelineInstance
  /\ cl' = [cl EXCEPT ![i].c = 0]
  /\ pc' = [pc EXCEPT ![i] = donePc]
  /\ UNCHANGED streamState

(***************************************************************************)
(* ScanPage.startScan up to the first await of initialize():               *)
(* setIsScanning(true), getAudioPipeline(), new AudioContext.              *)
(* The Start Scan buttons are rendered only while isScanning is false.     *)
(***************************************************************************)
getAudioPipeline == IF audioPipelineInstance = 0 THEN FreshInst ELSE audioPipelineInstance

StartScan(i) ==
  /\ alive
  /\ pc[i] = "idle"
  /\ \A j \in Scans : j < i => pc[j] # "idle"
  /\ ~isScanning
  /\ HasFresh
  /\ LET p == getAudioPipeline
         c == FreshCtx
         old == IF audioPipelineInstance = 0 THEN NoPipeline ELSE inst[p]
     IN /\ audioPipelineInstance' = p
        /\ pipeline' = [pipeline EXCEPT ![i] = p]
        /\ inst' = [inst EXCEPT ![p] = [old EXCEPT !.audioContext = c]]
        /\ ctxState' = [ctxState EXCEPT ![c] = "running"]
  /\ isScanning' = TRUE
  /\ mounted' = [mounted EXCEPT ![i] = TRUE]
  /\ pc' = [pc EXCEPT ![i] = "init_worklet"]
  /\ UNCHANGED <<alive, streamState, sess, delayT, playback, profile, fingerprint, stored, cl, auxVars>>

\* initialize(): await this.setupWorklet() -- addModule resolves or rejects
InitWorklet(i) ==
  /\ alive
  /\ pc[i] = "init_worklet"
  /\ \E ok \in BOOLEAN : pc' = [pc EXCEPT ![i] = IF ok THEN "init_sweep" ELSE "catch"]
  /\ UNCHANGED <<appVars, pipeVars, sess, pipeline, delayT, playback, profile, fingerprint, stored, cl, auxVars>>

\* initialize(): await this.loadSweepAudio(url)
InitSweep(i) ==
  /\ alive
  /\ pc[i] = "init_sweep"
  /\ \E ok \in BOOLEAN :
       IF ok /\ inst[pipeline[i]].audioContext # 0
         THEN /\ inst' = [inst EXCEPT ![pipeline[i]].sweepBuffer = TRUE]
              /\ pc' = [pc EXCEPT ![i] = "init_media"]
         ELSE /\ inst' = inst
              /\ pc' = [pc EXCEPT ![i] = "catch"]
  /\ UNCHANGED <<appVars, audioPipelineInstance, ctxState, streamState, sess, pipeline,
                 delayT, playback, profile, fingerprint, stored, cl, auxVars>>

\* initialize(): this.mediaStream = await getUserMedia(...); then startScan
\* awaits its 500 ms delay
InitMedia(i) ==
  /\ alive
  /\ pc[i] = "init_media"
  /\ \E ok \in BOOLEAN :
       IF ok
         THEN /\ inst' = [inst EXCEPT ![pipeline[i]].mediaStream = FreshStream]
              /\ streamState' = [streamState EXCEPT ![FreshStream] = "live"]
              /\ pc' = [pc EXCEPT ![i] = "ui_delay"]
              /\ delayT' = [delayT EXCEPT ![i] = UI_DELAY]
         ELSE /\ pc' = [pc EXCEPT ![i] = "catch"]
              /\ UNCHANGED <<inst, streamState, delayT>>
  /\ UNCHANGED <<appVars, audioPipelineInstance, ctxState, sess, pipeline,
                 playback, profile, fingerprint, stored, cl, auxVars>>


(***************************************************************************)
(* recordAudio(duration).                                                  *)
(***************************************************************************)
KindOf(i) == IF pc[i] \in {"amb_setup", "amb_rec"} THEN "amb" ELSE "smp"
DurationS(k) == IF k = "amb" THEN AMBIENT_DURATION ELSE SWEEP_DURATION
Duration(k) == Ticks(DurationS(k) * 1000)
Deadline(k) == Ticks((DurationS(k) + DEADLINE_EXTRA_S) * 1000)

\* recordAudio up to `await this.setupWorklet()`: the guard and the capture
\* of this.audioContext in the local `context`
RecordAudioEnter(i, k) ==
  sess' = [sess EXCEPT ![i][k].ctx = inst[pipeline[i]].audioContext]

\* the promise of a setTimeout-based delay is resolved when its timer runs
DelayOver_notAwaited(i) == delayT[i] >= 0

DelayOver(i) == delayT[i] = 0

\* the 500 ms delay of startScan is over: runCompletePipeline,
\* recordAmbientNoise, recordAudio up to its first await
UiDelayDone(i) ==
  /\ alive
  /\ pc[i] = "ui_delay"
  /\ DelayOver(i)
  /\ delayT' = [delayT EXCEPT ![i] = -1]
  /\ IF inst[pipeline[i]].audioContext # 0 /\ inst[pipeline[i]].mediaStream # 0
       THEN /\ RecordAudioEnter(i, "amb")
            /\ pc' = [pc EXCEPT ![i] = "amb_setup"]
       ELSE /\ pc' = [pc EXCEPT ![i] = "catch"]
            /\ sess' = sess
  /\ UNCHANGED <<appVars, pipeVars, pipeline, playback, profile, fingerprint, stored, cl, auxVars>>

\* recordAudio after setupWorklet: the nodes are created, both timers are
\* set, the graph is connected and 'start' is posted to the worklet.
\* addModule may reject; createMediaStreamSource(null) throws.
SessionSetup(i) ==
  /\ alive
  /\ pc[i] \in {"amb_setup", "smp_setup"}
  /\ LET k == KindOf(i) IN
     \E ok \in BOOLEAN :
       IF ok /\ inst[pipeline[i]].mediaStream # 0
         THEN /\ sess' = [sess EXCEPT ![i][k] =
                   [status |-> "active", outcome |-> "pending", anyChunk |-> FALSE,
                    cleanups |-> 0, completionT |-> Duration(k),
                    deadlineT |-> Deadline(k), elapsed |-> 0,
                    ctx |-> sess[i][k].ctx, settledAt |-> -1, after |-> 0]]
              /\ pc' = [pc EXCEPT ![i] = IF k = "amb" THEN "amb_rec" ELSE "smp_rec"]
         ELSE /\ sess' = sess
              /\ pc' = [pc EXCEPT ![i] = "catch"]
  /\ UNCHANGED <<appVars, pipeVars, pipeline, delayT, playback, profile, fingerprint, stored, cl, auxVars>>

\* a block posted by the worklet reaches port.onmessage: chunks.push.
\* anyChunk is chunks.length > 0, which is all the completion callback and
\* the scan depend on; the blocks after the first leave it as it is.
Deliver(i) ==
  /\ alive
  /\ \E k \in Kinds :
       /\ sess[i][k].status = "active"
       /\ ~sess[i][k].anyChunk
       /\ ctxState[sess[i][k].ctx] = "running"
       /\ sess' = [sess EXCEPT ![i][k].anyChunk = TRUE]
  /\ UNCHANGED <<appVars, pipeVars, scanVars, auxVars>>

\* the local cleanup() of recordAudio: clearTimeout(timeout), post 'stop',
\* disconnect source, worklet node and gain
SessionCleanup_keepsDeadline(s) ==
  [s EXCEPT !.cleanups = IF @ < 2 THEN @ + 1 ELSE @, !.status = "torn"]

SessionCleanup(s) ==
  [s EXCEPT !.cleanups = @ + 1, !.status = "torn", !.deadlineT = -1]

\* context.createBuffer(1, rawData.length, rate) needs at least one frame
CanAssemble_empty(s) == TRUE

CanAssemble(s) == s.anyChunk

\* a timer of the session is due.  Timers run in the order of their expiry,
\* so the completion timer (duration) runs before the deadline timer
\* (duration + 1 s).
\* Completion: cleanup(), assembly of the chunks, createBuffer, resolve.
\* createBuffer(1, 0, rate) throws NotSupportedError (a buffer has at least
\* one frame): with no chunk the callback ends there and the promise is
\* left unsettled.
\* Deadline: cleanup(), reject(new Error('Recording timeout')).
SessionTimerFire(i) ==
  /\ alive
  /\ \E k \in Kinds :
       LET s == sess[i][k]
           t == SessionCleanup(s)
       IN
       /\ s.status # "none"
       /\ IF s.completionT = 0
            THEN IF CanAssemble(t) /\ t.outcome = "pending"
                   THEN /\ sess' = [sess EXCEPT ![i][k] =
                              [t EXCEPT !.completionT = -1, !.outcome = "resolved",
                                        !.settledAt = s.elapsed]]
                        /\ pc' = [pc EXCEPT ![i] = IF k = "amb" THEN "settle_delay" ELSE "analyzing"]
                        /\ delayT' = [delayT EXCEPT ![i] = IF k = "amb" THEN SETTLE_DELAY ELSE -1]
                   ELSE /\ sess' = [sess EXCEPT ![i][k] = [t EXCEPT !.completionT = -1]]
                        /\ UNCHANGED <<pc, delayT>>
            ELSE /\ s.deadlineT = 0
                 /\ IF t.outcome = "pending"
                      THEN /\ sess' = [sess EXCEPT ![i][k] =
                                 [t EXCEPT !.deadlineT = -1, !.outcome = "rejected",
                                           !.settledAt = s.elapsed]]
                           /\ pc' = [pc EXCEPT ![i] = "catch"]
                      ELSE /\ sess' = [sess EXCEPT ![i][k] = [t EXCEPT !.deadlineT = -1]]
                           /\ pc' = pc
                 /\ delayT' = delayT
  /\ UNCHANGED <<appVars, pipeVars, pipeline, playback, profile, fingerprint, stored, cl, auxVars>>

\* this.delay(500) of runCompletePipeline is over: playSweepAndRecord.
\* recordAudio runs up to its first await and returns its promise; the
\* buffer source is then created and started at once.
SettleDelayDone(i) ==
  /\ alive
  /\ pc[i] = "settle_delay"
  /\ DelayOver(i)
  /\ delayT' = [delayT EXCEPT ![i] = -1]
  /\ LET p == inst[pipeline[i]] IN
     IF p.audioContext # 0 /\ p.mediaStream # 0 /\ p.sweepBuffer
       THEN /\ RecordAudioEnter(i, "smp")
            /\ playback' = [playback EXCEPT ![i] = TRUE]
            /\ pc' = [pc EXCEPT ![i] = "smp_setup"]
       ELSE /\ pc' = [pc EXCEPT ![i] = "catch"]
            /\ UNCHANGED <<sess, playback>>
  /\ UNCHANGED <<appVars, pipeVars, pipeline, profile, fingerprint, stored, cl, auxVars>>

\* runCompletePipeline steps 3 and 4: computeSTFT of both recordings and
\* the clamped subtraction
Analyze(i) ==
  /\ alive
  /\ pc[i] = "analyzing"
  /\ profile' = [profile EXCEPT ![i] = TRUE]
  /\ pc' = [pc EXCEPT ![i] = "processing"]
  /\ UNCHANGED <<appVars, pipeVars, sess, pipeline, delayT, playback, fingerprint, stored, cl, auxVars>>

\* startScan after runCompletePipeline: downsampling and peaks, exportToWav,
\* then await cleanupAudioPipeline()
Reduce(i) ==
  /\ alive
  /\ pc[i] = "processing"
  /\ fingerprint' = [fingerprint EXCEPT ![i] = TRUE]
  /\ cleanupAudioPipeline(i, "storing", "cl_wait", "catch")
  /\ UNCHANGED <<appVars, sess, pipeline, delayT, playback, profile, stored, auxVars>>

\* the close() a cleanup is suspended on resolves
CloseDone(i) ==
  /\ alive
  /\ pc[i] \in {"cl_wait", "err_cl_wait"}
  /\ CloseResolved(i, IF pc[i] = "cl_wait" THEN "storing" ELSE "error")
  /\ UNCHANGED <<appVars, sess, pipeline, delayT, playback, profile, fingerprint, stored, auxVars>>

\* sessionStorage.setItem('scanAudioData', ...), setIsScanning(false),
\* the navigation flag
Store(i) ==
  /\ alive
  /\ pc[i] = "storing"
  /\ stored' = [stored EXCEPT ![i] = TRUE]
  /\ SetIsScanning(i, FALSE)
  /\ pc' = [pc EXCEPT ![i] = "nav_delay"]
  /\ UNCHANGED <<mounted, alive, pipeVars, sess, pipeline, delayT, playback, profile, fingerprint, cl, auxVars>>

\* window.location.href = '/materials/new?scanned=1': a full page load,
\* which ends every handler of the old document
Navigate(i) ==
  /\ alive
  /\ pc[i] = "nav_delay"
  /\ alive' = FALSE
  /\ pc' = [pc EXCEPT ![i] = "complete"]
  /\ UNCHANGED <<isScanning, mounted, pipeVars, sess, pipeline, delayT, playback, profile,
                 fingerprint, stored, cl, auxVars>>

\* the catch block of startScan: setIsScanning(false), then
\* await cleanupAudioPipeline()
Catch(i) ==
  /\ alive
  /\ pc[i] = "catch"
  /\ SetIsScanning(i, FALSE)
  /\ cleanupAudioPipeline(i, "error", "err_cl_wait", "error")
  /\ UNCHANGED <<mounted, alive, sess, pipeline, delayT, playback, profile, fingerprint, stored, auxVars>>

(***************************************************************************)
(* 500 ms pass.  elapsed counts the ticks since the start of a session    *)
(* that has not settled; after counts the ticks since the ambient          *)
(* recording resolved, up to the length of the settle delay.               *)
(***************************************************************************)
ElapsedCap == (IF Deadline("amb") > Deadline("smp") THEN Deadline("amb") ELSE Deadline("smp")) + 1
Dec(t) == IF t > 0 THEN t - 1 ELSE t

TimerDue ==
  \E i \in Scans :
    \/ delayT[i] = 0
    \/ \E k \in Kinds : sess[i][k].completionT = 0 \/ sess[i][k].deadlineT = 0

Tick ==
  /\ alive
  /\ ~TimerDue
  /\ delayT' = [i \in Scans |-> Dec(delayT[i])]
  /\ sess' = [i \in Scans |-> [k \in Kinds |->
        [sess[i][k] EXCEPT !.completionT = Dec(@), !.deadlineT = Dec(@),
                           !.elapsed = IF sess[i][k].outcome = "pending" /\ @ < ElapsedCap
                                         THEN @ + 1 ELSE @,
                           !.after = IF k = "amb" /\ sess[i][k].outcome = "resolved" /\ @ < SETTLE_DELAY
                                       THEN @ + 1 ELSE @]]]
  /\ UNCHANGED <<appVars, pipeVars, pc, pipeline, playback, profile, fingerprint, stored, cl, auxVars>>

Next ==
  \/ Remount
  \/ Tick
  \/ \E i \in Scans :
       \/ StartScan(i)
       \/ InitWorklet(i)
       \/ InitSweep(i)
       \/ InitMedia(i)
       \/ UiDelayDone(i)
       \/ SessionSetup(i)
       \/ Deliver(i)
       \/ SessionTimerFire(i)
       \/ SettleDelayDone(i)
       \/ Analyze(i)
       \/ Reduce(i)
       \/ CloseDone(i)
       \/ Store(i)
       \/ Navigate(i)
       \/ Catch(i)

Spec == Init /\ [][Next]_vars


(***************************************************************************)
(* Sequential use of the pipeline by one caller, which awaits each call    *)
(* before it makes the next: initialize() with each of its outcomes,       *)
(* cleanupAudioPipeline() and cleanup() on the object the caller holds.    *)
(* The caller is slot 1; pc[1] records the call made last.                 *)
(***************************************************************************)
InitOutcomes == {"ok", "worklet_fails", "sweep_fails", "media_fails"}

\* getAudioPipeline().initialize(url), run to its end
SeqInitialize ==
  /\ pc[1] \in {"idle", "seq_inited", "seq_cleaned"}
  /\ HasFresh
  /\ \E o \in InitOutcomes :
       LET p == getAudioPipeline
           c == FreshCtx
           old == IF audioPipelineInstance = 0 THEN NoPipeline ELSE inst[p]
       IN /\ audioPipelineInstance' = p
          /\ pipeline' = [pipeline EXCEPT ![1] = p]
          /\ ctxState' = [ctxState EXCEPT ![c] = "running"]
          /\ inst' = [inst EXCEPT ![p] =
                [audioContext |-> c,
                 mediaStream |-> IF o = "ok" THEN FreshStream ELSE old.mediaStream,
                 sweepBuffer |-> IF o \in {"ok", "media_fails"} THEN TRUE ELSE old.sweepBuffer]]
          /\ streamState' = IF o = "ok" THEN [streamState EXCEPT ![FreshStream] = "live"]
                                        ELSE streamState
  /\ pc' = [pc EXCEPT ![1] = "seq_inited"]
  /\ UNCHANGED <<appVars, sess, delayT, playback, profile, fingerprint, stored, cl, auxVars>>

\* await cleanupAudioPipeline(), up to the await of close()
SeqCleanupGlobal ==
  /\ pc[1] \in {"idle", "seq_inited", "seq_cleaned"}
  /\ cleanupAudioPipeline(1, "seq_cleaned", "seq_closing", "seq_threw")
  /\ UNCHANGED <<appVars, sess, pipeline, delayT, playback, profile, fingerprint, stored, auxVars>>

\* await pipeline.cleanup() on the object the caller got from getAudioPipeline
SeqCleanupObject ==
  /\ pc[1] \in {"seq_inited", "seq_cleaned"}
  /\ pipeline[1] # 0
  /\ cleanup(1, pipeline[1], FALSE, "seq_cleaned", "seq_closing", "seq_threw")
  /\ UNCHANGED <<appVars, sess, pipeline, delayT, playback, profile, fingerprint, stored, auxVars>>

SeqCloseDone ==
  /\ pc[1] = "seq_closing"
  /\ CloseResolved(1, "seq_cleaned")
  /\ UNCHANGED <<appVars, sess, pipeline, delayT, playback, profile, fingerprint, stored, auxVars>>

NextSeq == SeqInitialize \/ SeqCleanupGlobal \/ SeqCleanupObject \/ SeqCloseDone

SpecCleanup == Init /\ [][NextSeq]_vars


(***************************************************************************)
(* Feature reduction of a scan (ScanPage.startScan and                     *)
(* NewMaterialPage.startMaterialScan hold the same code) and the           *)
(* persistence of its record by createMaterial.                            *)
(*                                                                         *)
(* A FrequencyProfile of computeSTFT has one pair per bin; frequencies     *)
(* grow with the bin number, which stands for the frequency here.  The     *)
(* profiles explored have rprofile.length bins; the magnitudes of the bins *)
(* 0, STRIDE, 2 * STRIDE, ... are given by rprofile.head as far as it      *)
(* reaches, every other magnitude is 0.                                    *)
(***************************************************************************)
\* the number of bins computeSTFT produces: maxBin - minBin
NumBins == (FREQ_MAX * FFT_SIZE) \div SAMPLE_RATE - (FREQ_MIN * FFT_SIZE) \div SAMPLE_RATE

ProfileLengths ==
  {0, 1, STRIDE, STRIDE + 1, (TOP_PEAKS - 1) * STRIDE + 1, TOP_PEAKS * STRIDE + 1,
   MAX_ENTRIES * STRIDE, MAX_ENTRIES * STRIDE + 1, NumBins, 2 * MAX_ENTRIES * STRIDE + 1}

Profiles ==
  {[length |-> n, head |-> h] : n \in ProfileLengths, h \in [1..MaxHead -> 0..MaxMag]}

\* originalFreqs[i] and originalMags[i], i counted from 0
OriginalFreq(p, i) == i
OriginalMag(p, i) ==
  IF i % STRIDE = 0 /\ i \div STRIDE < Len(p.head) THEN p.head[i \div STRIDE + 1] ELSE 0

Max(S) == CHOOSE x \in S : \A y \in S : y <= x

\* for (let i = 0; ...): the first index of the stride
FirstIndex_jitter(t) == t

FirstIndex(t) == 0

\* for (let i = 0; i < originalFreqs.length; i += sampleRate) push(original[i])
Downsample(p, from) ==
  LET m == IF p.length > from THEN (p.length - from + STRIDE - 1) \div STRIDE ELSE 0 IN
  [frequencies |-> [k \in 1..m |-> OriginalFreq(p, from + (k - 1) * STRIDE)],
   magnitudes |-> [k \in 1..m |-> OriginalMag(p, from + (k - 1) * STRIDE)]]

\* downsampledMags.indexOf(Math.max(...downsampledMags)), counted from 1;
\* 0 stands for the -1 of an empty array
MaxMagIndex(mags) ==
  IF Len(mags) = 0 THEN 0
  ELSE LET top == Max({mags[k] : k \in 1..Len(mags)}) IN
       Min({k \in 1..Len(mags) : mags[k] = top})

\* among entries of equal magnitude a stable sort keeps the one that comes
\* first in the array in front
TieBreak_last(S) == Max(S)

TieBreak(S) == Min(S)

\* [...mags].map((mag, idx) => ({mag, idx})).sort((a, b) => b.mag - a.mag)
\* .slice(0, 5): the first k entries of the array sorted by descending
\* magnitude, taken one after the other from the candidates cand
RECURSIVE SortedIndices(_, _, _)
SortedIndices(mags, cand, k) ==
  IF k = 0 \/ cand = {} THEN <<>>
  ELSE LET top == Max({mags[i] : i \in cand})
           i0 == TieBreak({i \in cand : mags[i] = top})
       IN <<i0>> \o SortedIndices(mags, cand \ {i0}, k - 1)

\* the frequencyData record of the scan page
BuildFrequencyData(p, t) ==
  LET d == Downsample(p, FirstIndex(t))
      maxMagIndex == MaxMagIndex(d.magnitudes)
      sortedIndices == SortedIndices(d.magnitudes, 1..Len(d.magnitudes), TOP_PEAKS)
  IN [built |-> TRUE,
      frequencies |-> d.frequencies,
      magnitudes |-> d.magnitudes,
      peakFrequency |-> IF maxMagIndex = 0 THEN Undefined ELSE d.frequencies[maxMagIndex],
      peakMagnitude |-> IF maxMagIndex = 0 THEN Undefined ELSE d.magnitudes[maxMagIndex],
      topPeaks |-> [j \in 1..Len(sortedIndices) |->
                      [frequency |-> d.frequencies[sortedIndices[j]],
                       magnitude |-> d.magnitudes[sortedIndices[j]]]],
      fftSize |-> FFT_SIZE,
      frequencyRange |-> [min |-> FREQ_MIN, max |-> FREQ_MAX],
      sampleRate |-> STRIDE,
      timestamp |-> t]

\* createMaterial: const step = Math.ceil(freqData.frequencies.length / 200)
SecondStep_floor(len) == len \div MAX_ENTRIES

SecondStep(len) == (len + MAX_ENTRIES - 1) \div MAX_ENTRIES

\* array.filter((_, i) => i % step === 0)
EveryNth(seq, step) ==
  [k \in 1..((Len(seq) + step - 1) \div step) |-> seq[(k - 1) * step + 1]]

\* createMaterial: the frequencyData field of the document it adds
CreateMaterialFrequencyData(fd) ==
  IF Len(fd.frequencies) > MAX_ENTRIES
    THEN LET step == SecondStep(Len(fd.frequencies)) IN
         [fd EXCEPT !.frequencies = EveryNth(fd.frequencies, step),
                    !.magnitudes = EveryNth(fd.magnitudes, step)]
    ELSE fd

\* a scan reduces the profile (run 2 is a second scan, later than run 1)
ReduceRun(r) ==
  /\ ~frequencyData[r].built
  /\ \A q \in Runs : q < r => frequencyData[q].built
  /\ frequencyData' = [frequencyData EXCEPT ![r] = BuildFrequencyData(rprofile, now)]
  /\ UNCHANGED <<rprofile, now, docData, notReducer>>

\* handleSubmit: payload.frequencyData = parsed.frequencyData, createMaterial
Submit(r) ==
  /\ frequencyData[r].built
  /\ ~docData[r].built
  /\ docData' = [docData EXCEPT ![r] = CreateMaterialFrequencyData(frequencyData[r])]
  /\ UNCHANGED <<rprofile, now, frequencyData, notReducer>>

\* time passes
ClockTick ==
  /\ now < MaxNow
  /\ now' = now + 1
  /\ UNCHANGED <<rprofile, frequencyData, docData, notReducer>>

InitReduce ==
  /\ ScanInit
  /\ MatcherIdle
  /\ WorkletIdle
  /\ AnalysisIdle
  /\ RecordIdle
  /\ rprofile \in Profiles
  /\ now = 0
  /\ frequencyData = [r \in Runs |-> NoFrequencyData]
  /\ docData = [r \in Runs |-> NoFrequencyData]

NextReduce ==
  \/ ClockTick
  \/ \E r \in Runs : ReduceRun(r) \/ Submit(r)

SpecReduce == InitReduce /\ [][NextReduce]_vars


(***************************************************************************)
(* The catalog matcher (lib/firestore-catalog.ts).                         *)
(*                                                                         *)
(* A name is a sequence of characters.  A similarity is kept as a whole    *)
(* number of 1/Unit, which is exact for every quotient the code forms from *)
(* lengths up to 10; a confidence is kept as a whole number of             *)
(* 1/(10 * Unit).  A fingerprint is reduced to the frequencies of its      *)
(* topPeaks, the only part the matcher reads.                              *)
(***************************************************************************)
Unit == 2520
Tenths(n) == (n * Unit) \div 10
One == 10 * Unit                         \* the confidence 1.0

Alphabet == {"a", "b", "A"}
Names == UNION {[1..n -> Alphabet] : n \in 1..MaxNameLen}
PeakHz == {2950, 3000, 3010, 3050}
PeakLists == UNION {[1..n -> PeakHz] : n \in 0..MaxPeaks}
Fingerprints == {NoFingerprint} \cup {[present |-> TRUE, topPeaks |-> l] : l \in PeakLists}

\* String.prototype.toLowerCase
ToLowerCase_keep(c) == c

ToLowerCase(c) == IF c = "A" THEN "a" ELSE c

ToLower(str) == [i \in 1..Len(str) |-> ToLowerCase(str[i])]

\* str.includes(t): t occurs in str as a contiguous piece
Includes(str, t) ==
  \E i \in 0..(Len(str) - Len(t)) : SubSeq(str, i + 1, i + Len(t)) = t

\* calculateNameSimilarity(str1, str2)
calculateNameSimilarity(str1, str2) ==
  IF str1 = str2 THEN Unit
  ELSE IF Includes(str1, str2) \/ Includes(str2, str1) THEN Tenths(SUBSTRING_TENTHS)
  ELSE LET longer == IF Len(str1) > Len(str2) THEN str1 ELSE str2
           shorter == IF Len(str1) > Len(str2) THEN str2 ELSE str1
           InLonger(char) == Includes(longer, <<char>>)
           overlap == Len(SelectSeq(shorter, InLonger))
       IN (overlap * Unit) \div Len(longer)

Abs(x) == IF x < 0 THEN -x ELSE x

\* calculateFrequencySimilarity(freq1, freq2): for each peak of freq1 the
\* inner loop stops at the first peak of freq2 closer than the tolerance
calculateFrequencySimilarity(freq1, freq2) ==
  LET peaks1 == freq1.topPeaks
      peaks2 == freq2.topPeaks
      matches == Cardinality({i \in 1..Len(peaks1) :
                    \E j \in 1..Len(peaks2) : Abs(peaks1[i] - peaks2[j]) < TOLERANCE})
  IN IF Len(peaks1) = 0 \/ Len(peaks2) = 0 THEN 0
     ELSE (matches * Unit) \div (IF Len(peaks1) > Len(peaks2) THEN Len(peaks1) ELSE Len(peaks2))

\* if (nameSimilarity > 0.7) confidence += nameSimilarity * 0.6
NameContribution_unweighted(sim) == IF sim > Tenths(NAME_THRESHOLD_TENTHS) THEN sim * 10 ELSE 0

NameContribution(sim) ==
  IF sim > Tenths(NAME_THRESHOLD_TENTHS) THEN sim * NAME_WEIGHT_TENTHS ELSE 0

\* if (freqSimilarity > 0.6) confidence += freqSimilarity * 0.4
FreqContribution_asName(sim) ==
  IF sim > Tenths(FREQ_THRESHOLD_TENTHS) THEN sim * NAME_WEIGHT_TENTHS ELSE 0

FreqContribution(sim) ==
  IF sim > Tenths(FREQ_THRESHOLD_TENTHS) THEN sim * FREQ_WEIGHT_TENTHS ELSE 0

\* the body of allCatalog.forEach for one document, up to the test of the
\* confidence
ScoreItem(q, item) ==
  LET nameSimilarity == calculateNameSimilarity(ToLower(q.materialName), ToLower(item.materialName))
      both == q.frequencyData.present /\ item.averageFrequencyData.present
      freqSimilarity == IF both
                          THEN calculateFrequencySimilarity(q.frequencyData, item.averageFrequencyData)
                          ELSE 0
      byName == NameContribution(nameSimilarity) > 0
      byFreq == both /\ FreqContribution(freqSimilarity) > 0
  IN [done |-> TRUE,
      nameSimilarity |-> nameSimilarity,
      freqComputed |-> both,
      freqSimilarity |-> freqSimilarity,
      confidence |-> NameContribution(nameSimilarity)
                       + (IF both THEN FreqContribution(freqSimilarity) ELSE 0),
      matchReason |-> IF byName /\ byFreq THEN "both"
                      ELSE IF byName THEN "name"
                      ELSE IF byFreq THEN "frequency"
                      ELSE "none"]

\* one catalog item is scored against the query
ScoreEntry ==
  /\ ~score.done
  /\ score' = ScoreItem(query, entry)
  /\ UNCHANGED <<query, entry, catalog, userDiscoveries, materialStats, mpc,
                 materialMatches, matchedMaterialId, notMatcher>>

\* the names vary freely with one fingerprint each, or the fingerprints
\* vary freely with a pair of names
InitScore ==
  /\ ScanInit
  /\ ReducerIdle
  /\ WorkletIdle
  /\ AnalysisIdle
  /\ RecordIdle
  /\ \/ /\ query \in [materialName : Names,
                      frequencyData : {NoFingerprint, [present |-> TRUE, topPeaks |-> <<3010>>]}]
        /\ entry \in [materialName : Names,
                      averageFrequencyData : {NoFingerprint, [present |-> TRUE, topPeaks |-> <<3000>>]}]
     \/ /\ query \in [materialName : {<<"a">>, <<"A">>}, frequencyData : Fingerprints]
        /\ entry \in [materialName : {<<"a">>, <<"b">>}, averageFrequencyData : Fingerprints]
  /\ score = NoScore
  /\ catalog = <<>>
  /\ userDiscoveries = {}
  /\ materialStats = <<>>
  /\ mpc = "form"
  /\ materialMatches = <<>>
  /\ matchedMaterialId = 0

NextScore == ScoreEntry

SpecScore == InitScore /\ [][NextScore]_vars


(***************************************************************************)
(* matchMaterialToCatalog over a catalog, and the submission of a material *)
(* by NewMaterialPage: handleSubmit, the match dialog, handleMatchSelect,  *)
(* handleCreateNewFromDialog, with createCatalogEntry and                  *)
(* linkMaterialToCatalog.  A catalog document has its place in the         *)
(* collection as id.                                                       *)
(***************************************************************************)
PoolNames == <<(<<"a", "b">>), (<<"b", "a">>), (<<"a">>)>>
PoolPrints == <<NoFingerprint, [present |-> TRUE, topPeaks |-> <<3000>>]>>
CatalogPool ==
  [t \in 1..(Len(PoolNames) * Len(PoolPrints)) |->
     [materialName |-> PoolNames[((t - 1) \div Len(PoolPrints)) + 1],
      averageFrequencyData |-> PoolPrints[((t - 1) % Len(PoolPrints)) + 1]]]

\* the catalogs explored: n items of the pool, in the order of the pool
RECURSIVE SortedChoices(_, _)
SortedChoices(n, lo) ==
  IF n = 0 THEN {<<>>}
  ELSE UNION {{<<t>> \o c : c \in SortedChoices(n - 1, t)} : t \in lo..Len(CatalogPool)}
Catalogs ==
  {[i \in 1..Len(c) |-> CatalogPool[c[i]]] : c \in UNION {SortedChoices(n, 1) : n \in 0..MaxCatalog}}

Queries ==
  [materialName : {<<"a", "b">>, <<"A", "b">>, <<"b", "b">>, <<"a">>},
   frequencyData : {NoFingerprint, [present |-> TRUE, topPeaks |-> <<3010>>],
                    [present |-> TRUE, topPeaks |-> <<3050>>]}]

\* if (confidence > 0.5) matches.push({...})
Accepted(q, cat) ==
  LET Pushed(i) == ScoreItem(q, cat[i]).confidence > ACCEPT_TENTHS * Unit IN
  SelectSeq([i \in 1..Len(cat) |->
               [materialId |-> i,
                confidence |-> ScoreItem(q, cat[i]).confidence,
                matchReason |-> ScoreItem(q, cat[i]).matchReason]],
            LAMBDA m : Pushed(m.materialId))

\* matches.sort((a, b) => b.confidence - a.confidence): a stable sort
RECURSIVE InsertMatch(_, _)
InsertMatch(m, sorted) ==
  IF sorted = <<>> THEN <<m>>
  ELSE IF Head(sorted).confidence >= m.confidence
         THEN <<Head(sorted)>> \o InsertMatch(m, Tail(sorted))
         ELSE <<m>> \o sorted
RECURSIVE SortedMatches(_)
SortedMatches(ms) ==
  IF ms = <<>> THEN <<>>
  ELSE InsertMatch(ms[Len(ms)], SortedMatches(SubSeq(ms, 1, Len(ms) - 1)))

SortMatches_asPushed(ms) == ms

SortMatches(ms) == SortedMatches(ms)

\* matchMaterialToCatalog(materialName, frequencyData): the value returned
matchMaterialToCatalog(q, cat) ==
  LET sorted == SortMatches(Accepted(q, cat)) IN
  SubSeq(sorted, 1, IF Len(sorted) < MAX_MATCHES THEN Len(sorted) ELSE MAX_MATCHES)

\* the documents matchMaterialToCatalog writes: it only reads the catalog
MatcherWrites_linksTop(ms) ==
  IF ms = <<>> THEN {}
  ELSE {[n |-> 0, materialId |-> ms[1].materialId, isFirstDiscovery |-> FALSE]}

MatcherWrites(ms) == {}

\* handleSubmit up to the return of matchMaterialToCatalog (createMaterial
\* has added the material document); getDocs may reject, and the catch
\* goes on to handleCreateNewCatalogEntry
MatchCatalog ==
  /\ mpc = "form"
  /\ \E ok \in BOOLEAN :
       IF ok
         THEN /\ materialMatches' = matchMaterialToCatalog(query, catalog)
              /\ userDiscoveries' = userDiscoveries \cup MatcherWrites(materialMatches')
              /\ mpc' = "matched"
         ELSE /\ mpc' = "create_new"
              /\ UNCHANGED <<materialMatches, userDiscoveries>>
  /\ UNCHANGED <<query, entry, score, catalog, materialStats, matchedMaterialId, notMatcher>>

\* handleSubmit after the match: the dialog is shown when there is a match,
\* a new catalog entry is created otherwise
AfterMatch ==
  /\ mpc = "matched"
  /\ mpc' = IF Len(materialMatches) > 0
               /\ materialMatches[1].confidence > ACCEPT_TENTHS * Unit
            THEN "dialog" ELSE "create_new"
  /\ UNCHANGED <<query, entry, score, catalog, userDiscoveries, materialStats,
                 materialMatches, matchedMaterialId, notMatcher>>

\* createCatalogEntry: addDoc to the catalog, setDoc of the stats, addDoc of
\* the discovery; `writes` of them are made before one rejects, which
\* handleCreateNewCatalogEntry catches
CreateCatalogEntry ==
  /\ mpc = "create_new"
  /\ \E writes \in 0..3 :
       LET id == Len(catalog) + 1 IN
       /\ catalog' = IF writes >= 1
                       THEN Append(catalog, [materialName |-> query.materialName,
                                             averageFrequencyData |-> NoFingerprint])
                       ELSE catalog
       /\ materialStats' = IF writes >= 1
                             THEN Append(materialStats, IF writes >= 2 THEN 1 ELSE 0)
                             ELSE materialStats
       /\ userDiscoveries' =
            IF writes = 3
              THEN userDiscoveries \cup
                     {[n |-> Cardinality(userDiscoveries) + 1, materialId |-> id,
                       isFirstDiscovery |-> TRUE]}
              ELSE userDiscoveries
  /\ mpc' = "done"
  /\ UNCHANGED <<query, entry, score, materialMatches, matchedMaterialId, notMatcher>>

\* the user clicks candidate k of the dialog: handleMatchSelect and
\* linkMaterialToCatalog.  The link returns at once when the user has a
\* discovery of that entry; it may reject before its first write or after
\* the discovery was added, and the catch creates a new entry.
SelectMatch(k) ==
  /\ mpc = "dialog"
  /\ k \in 1..Len(materialMatches)
  /\ LET id == materialMatches[k].materialId IN
     /\ matchedMaterialId' = id
     /\ IF \E d \in userDiscoveries : d.materialId = id
          THEN /\ mpc' = "done"
               /\ UNCHANGED <<userDiscoveries, materialStats>>
          ELSE \E outcome \in {"ok", "fails_early", "fails_late"} :
                 /\ userDiscoveries' =
                      IF outcome = "fails_early" THEN userDiscoveries
                      ELSE userDiscoveries \cup
                             {[n |-> Cardinality(userDiscoveries) + 1, materialId |-> id,
                               isFirstDiscovery |-> FALSE]}
                 /\ materialStats' =
                      IF outcome = "ok" /\ materialStats[id] > 0
                        THEN [materialStats EXCEPT ![id] = @ + 1]
                        ELSE materialStats
                 /\ mpc' = IF outcome = "ok" THEN "done" ELSE "create_new"
  /\ UNCHANGED <<query, entry, score, catalog, materialMatches, notMatcher>>

\* the user clicks Create New Material Entry
CreateNewFromDialog ==
  /\ mpc = "dialog"
  /\ mpc' = "create_new"
  /\ UNCHANGED <<query, entry, score, catalog, userDiscoveries, materialStats,
                 materialMatches, matchedMaterialId, notMatcher>>

\* the user cancels the dialog
CancelDialog ==
  /\ mpc = "dialog"
  /\ mpc' = "cancelled"
  /\ UNCHANGED <<query, entry, score, catalog, userDiscoveries, materialStats,
                 materialMatches, matchedMaterialId, notMatcher>>

InitMatch ==
  /\ ScanInit
  /\ ReducerIdle
  /\ WorkletIdle
  /\ AnalysisIdle
  /\ RecordIdle
  /\ catalog \in Catalogs
  /\ query \in Queries
  /\ entry = NoItem
  /\ score = NoScore
  /\ materialStats = [i \in 1..Len(catalog) |-> 1]
  /\ userDiscoveries \in
       {{}} \cup (IF Len(catalog) > 0
                    THEN {{[n |-> 1, materialId |-> 1, isFirstDiscovery |-> TRUE]}}
                    ELSE {})
  /\ mpc = "form"
  /\ materialMatches = <<>>
  /\ matchedMaterialId = 0

NextMatch ==
  \/ MatchCatalog
  \/ AfterMatch
  \/ CreateCatalogEntry
  \/ \E k \in 1..MAX_MATCHES : SelectMatch(k)
  \/ CreateNewFromDialog
  \/ CancelDialog

SpecMatch == InitMatch /\ [][NextMatch]_vars


(***************************************************************************)
(* RecorderWorklet: the messages of its port and the calls of process().   *)
(* The audio thread handles one message or renders one block at a time.    *)
(***************************************************************************)
MessageTypes == {"start", "stop", "other"}

\* inputs[0]?.[0]: undefined, or a Float32Array of this length
Inputs == {Undefined, 0, 128}

\* isRecording after port.onmessage has handled a message of this type
OnMessage_ignoresStop(rec, type) ==
  IF type = "start" THEN TRUE ELSE rec

OnMessage(rec, type) ==
  IF type = "start" THEN TRUE
  ELSE IF type = "stop" THEN FALSE
  ELSE rec

\* the page posts a message to the worklet's port
PortPost(type) ==
  /\ Len(inbox) + Len(handled) < MaxMsgs
  /\ inbox' = Append(inbox, type)
  /\ UNCHANGED <<isRecording, sampleCount, handled, processed, posted, notWorklet>>

\* port.onmessage handles the oldest message
HandleMessage ==
  /\ inbox # <<>>
  /\ isRecording' = OnMessage(isRecording, Head(inbox))
  /\ sampleCount' = IF Head(inbox) = "start" THEN 0 ELSE sampleCount
  /\ handled' = Append(handled, Head(inbox))
  /\ inbox' = Tail(inbox)
  /\ UNCHANGED <<processed, posted, notWorklet>>

\* process(inputs) with inputs[0]?.[0] = input
Process(input) ==
  /\ Len(processed) < MaxProcess
  /\ processed' = Append(processed, [input |-> input, after |-> Len(handled)])
  /\ IF isRecording /\ input # Undefined /\ input > 0
       THEN /\ sampleCount' = sampleCount + input
            /\ posted' = Append(posted, [type |-> "data", audioData |-> input,
                                         block |-> Len(processed) + 1])
       ELSE UNCHANGED <<sampleCount, posted>>
  /\ UNCHANGED <<isRecording, inbox, handled, notWorklet>>

NextWorklet ==
  \/ \E type \in MessageTypes : PortPost(type)
  \/ HandleMessage
  \/ \E input \in Inputs : Process(input)

SpecWorklet == Init /\ [][NextWorklet]_vars


(***************************************************************************)
(* The analysis of runCompletePipeline: computeSTFT of the two recordings  *)
(* and the subtraction of the ambient profile.                             *)
(*                                                                         *)
(* The transform itself is not computed: a recording carries, for each of  *)
(* its frames, the magnitudes the transform yields at the bins followed,   *)
(* the first and the last bin of the range.  A magnitude is a whole number *)
(* of a unit fine enough for every mean of the frames to be whole.  A      *)
(* frame magnitude is an element of a Float32Array and the double 1e-5 is  *)
(* not a float32 value, so no frame magnitude equals the threshold: it     *)
(* lies between two of the levels.  A frequency is a whole number of       *)
(* 1/FFT_SIZE Hz.                                                          *)
(***************************************************************************)
HopSize == FFT_SIZE \div 2
MinBin == (FREQ_MIN * FFT_SIZE) \div SAMPLE_RATE
FollowedBins == <<0, NumBins - 1>>

Threshold == 36
SampleLevels == {24, 48, 72}
AmbientLevels == {24, 60}

\* context.sampleRate: the rate asked for, or the rate of the device when
\* the constructor does not take the option
ContextRates == {SAMPLE_RATE, 48000}

\* Math.floor((audioData.length - fftSize) / hopSize) + 1, and the number
\* of rounds of the loop over the frames
NumFrames(length) == (length - FFT_SIZE) \div HopSize + 1
FrameCount(length) == IF NumFrames(length) > 0 THEN NumFrames(length) ELSE 0

\* the lengths explored: shorter than one frame, and 1..MaxFrames whole
\* frames; createBuffer rejects a length of 0, so a recording has at least
\* one sample
RecordingLengths ==
  {1, FFT_SIZE - 1} \cup {FFT_SIZE + (n - 1) * HopSize : n \in 1..MaxFrames}

Recordings(levels, rate) ==
  UNION {[length : {len}, sampleRate : {rate},
          frames : [1..FrameCount(len) -> [1..Len(FollowedBins) -> levels]]] :
           len \in RecordingLengths}

RECURSIVE SumOver(_, _)
SumOver(f, S) ==
  IF S = {} THEN 0
  ELSE LET x == CHOOSE y \in S : TRUE IN f[x] + SumOver(f, S \ {x})

\* if (frameMag[bin] > this.THRESHOLD)
AboveThreshold_always(m) == TRUE

AboveThreshold(m) == m > Threshold

\* avgMagnitudes[bin] = count > 0 ? sum / count : 0
AverageMagnitude(frames, b) ==
  LET counted == {f \in 1..Len(frames) : AboveThreshold(frames[f][b])}
      sum == SumOver([f \in 1..Len(frames) |-> frames[f][b]], counted)
      count == Cardinality(counted)
  IN IF count > 0 THEN sum \div count ELSE 0

\* computeSTFT(audioData): the profile at the bins followed
computeSTFT(rec) ==
  [frequencies |-> [k \in 1..Len(FollowedBins) |-> (MinBin + FollowedBins[k]) * SAMPLE_RATE],
   magnitudes |-> [k \in 1..Len(FollowedBins) |-> AverageMagnitude(rec.frames, k)],
   fftSize |-> FFT_SIZE,
   frequencyRange |-> [min |-> FREQ_MIN, max |-> FREQ_MAX]]

\* Math.max(0, x)
ClampAtZero_none(x) == x

ClampAtZero(x) == IF x > 0 THEN x ELSE 0

\* steps 3 and 4 of runCompletePipeline and the value it returns
Analyse ==
  /\ ~processedAudio.done
  /\ LET sampleFFT == computeSTFT(sampleRecording)
         ambientFFT == computeSTFT(ambientRecording)
         subtractedMagnitudes ==
           [i \in 1..Len(sampleFFT.magnitudes) |->
              ClampAtZero(sampleFFT.magnitudes[i] - ambientFFT.magnitudes[i])]
     IN processedAudio' =
          [done |-> TRUE,
           outcome |-> "returned",
           sampleFFT |-> sampleFFT,
           ambientFFT |-> ambientFFT,
           frequencyData |-> [frequencies |-> sampleFFT.frequencies,
                              magnitudes |-> subtractedMagnitudes,
                              fftSize |-> sampleFFT.fftSize,
                              frequencyRange |-> sampleFFT.frequencyRange]]
  /\ UNCHANGED <<sampleRecording, ambientRecording, notAnalysis>>

InitAnalysis ==
  /\ ScanInit
  /\ ReducerIdle
  /\ MatcherIdle
  /\ WorkletIdle
  /\ RecordIdle
  /\ \E rate \in ContextRates :
       /\ sampleRecording \in Recordings(SampleLevels, rate)
       /\ ambientRecording \in Recordings(AmbientLevels, rate)
  /\ processedAudio = NoProcessedAudio

NextAnalysis == Analyse

SpecAnalysis == InitAnalysis /\ [][NextAnalysis]_vars


(***************************************************************************)
(* One call of recordAudio(duration) with the worklet it drives.           *)
(*                                                                         *)
(* Time is counted in render quanta: the audio thread calls process() once *)
(* per quantum, so Len(processed) is the audio time since the node was     *)
(* connected.  A duration is a whole number of quanta.  The completion     *)
(* timer runs on the page's thread and fires when the duration has passed  *)
(* or later; the worklet handles the page's messages, and the page the     *)
(* worklet's, some time after they were posted.  The deadline timer of     *)
(* (duration + 1) s is cleared by the completion callback, which is due    *)
(* before it.  rawData is kept as the pieces it was set from: the block a  *)
(* piece came from, its length and its offset.                             *)
(***************************************************************************)
Durations == 1..3

RECURSIVE TotalLength(_)
TotalLength(cs) ==
  IF cs = <<>> THEN 0 ELSE cs[Len(cs)].length + TotalLength(SubSeq(cs, 1, Len(cs) - 1))

\* for (const chunk of chunks) { rawData.set(chunk, offset); offset += chunk.length }
Assemble_newestFirst(cs) ==
  [k \in 1..Len(cs) |->
     [block |-> cs[Len(cs) + 1 - k].block, length |-> cs[Len(cs) + 1 - k].length,
      offset |-> TotalLength(SubSeq(cs, Len(cs) + 2 - k, Len(cs)))]]

Assemble(cs) ==
  [k \in 1..Len(cs) |->
     [block |-> cs[k].block, length |-> cs[k].length,
      offset |-> TotalLength(SubSeq(cs, 1, k - 1))]]

\* recordAudio up to the return of the promise: the node is created and
\* connected, onmessage is set, 'start' is posted, the timers are set
RecordAudio(duration) ==
  /\ recorder.status = "none"
  /\ recorder' = [recorder EXCEPT !.status = "recording", !.duration = duration]
  /\ inbox' = Append(inbox, "start")
  /\ UNCHANGED <<isRecording, sampleCount, handled, processed, posted,
                 chunks, rawData, received, notRecord>>

\* the audio thread renders one quantum
Render(input) ==
  /\ recorder.status # "none"
  /\ Process(input)

\* the worklet handles a message of the page
WorkletHandles ==
  /\ recorder.status # "none"
  /\ HandleMessage

\* workletNode.port.onmessage of the page receives the oldest data message
\* not yet received; the handler stays set after the recording was assembled
OnData ==
  /\ recorder.delivered < Len(posted)
  /\ LET m == posted[recorder.delivered + 1] IN
     /\ chunks' = Append(chunks, [block |-> m.block, length |-> m.audioData])
     /\ received' = Append(received, [block |-> m.block, length |-> m.audioData,
                                      assembled |-> recorder.status # "recording"])
  /\ recorder' = [recorder EXCEPT !.delivered = @ + 1]
  /\ UNCHANGED <<rawData, workletVars, notRecord>>

\* the completion timer fires: cleanup() posts 'stop', the chunks are
\* combined, the AudioBuffer is created and the promise resolved;
\* createBuffer throws for a length of 0 and the promise stays pending
CompletionFire ==
  /\ recorder.status = "recording"
  /\ Len(processed) >= recorder.duration
  /\ inbox' = Append(inbox, "stop")
  /\ IF TotalLength(chunks) = 0
       THEN /\ recorder' = [recorder EXCEPT !.status = "unsettled"]
            /\ rawData' = rawData
       ELSE /\ recorder' = [recorder EXCEPT !.status = "resolved"]
            /\ rawData' = Assemble(chunks)
  /\ UNCHANGED <<isRecording, sampleCount, handled, processed, posted,
                 chunks, received, notRecord>>

NextRecord ==
  \/ \E duration \in Durations : RecordAudio(duration)
  \/ \E input \in Inputs : Render(input)
  \/ WorkletHandles
  \/ OnData
  \/ CompletionFire

SpecRecord == Init /\ [][NextRecord]_vars


(***************************************************************************)
(* Properties.                                                             *)
(***************************************************************************)
Sessions == {<<i, k>> \in Scans \X Kinds : sess[i][k].status # "none"}
Settled(s) == s.outcome \in {"resolved", "rejected"}
TimerPending(s) == s.completionT >= 0 \/ s.deadlineT >= 0

\* C1: a session that received no block is rejected ('Recording timeout'),
\* not before duration + 1 s have passed since its start, and it is never
\* resolved with a recording.
C1_TimeoutOnSilence ==
  \A x \in Sessions :
    LET s == sess[x[1]][x[2]] IN
    ~s.anyChunk =>
      /\ s.outcome # "resolved"
      /\ s.outcome = "rejected" => s.settledAt >= Deadline(x[2])
      /\ s.elapsed > Deadline(x[2]) => s.outcome = "rejected"

\* C2: every session has settled, with a recording or with the timeout
\* error, once duration + 1 s have passed since it started, whatever the
\* number of blocks it received.
C2_SettlesByDeadline ==
  \A x \in Sessions :
    LET s == sess[x[1]][x[2]] IN
    s.elapsed > Deadline(x[2]) => Settled(s)

\* C3: the teardown of a session runs at most once, it has run exactly
\* once when the session has settled, and once it has run no timer of the
\* session is left that could run it again.
C3_TeardownOnce ==
  \A x \in Sessions :
    LET s == sess[x[1]][x[2]] IN
    /\ s.cleanups <= 1
    /\ Settled(s) => s.cleanups = 1
    /\ s.status = "torn" <=> s.cleanups >= 1
    /\ s.cleanups >= 1 => ~TimerPending(s)

C3_Witness ==
  \E x \in Sessions :
    /\ sess[x[1]][x[2]].outcome = "resolved"
    /\ sess[x[1]][x[2]].cleanups = 1
    /\ sess[x[1]][x[2]].elapsed = Duration(x[2])

\* C4: at most one recording session is between its 'start' and its
\* teardown at any time.
ActiveSessions == {x \in Sessions : sess[x[1]][x[2]].status = "active"}

C4_OneActiveSession == Cardinality(ActiveSessions) <= 1

\* C5: the excitation playback of a scan has not been started unless the
\* capture of its sample session has been started ('start' posted).
C5_PlaybackAfterStart ==
  \A i \in Scans : playback[i] => sess[i]["smp"].status # "none"

\* C6: when the sample session of a scan starts, its ambient session has
\* resolved and been torn down and the 500 ms settle delay has passed since;
\* the analysis has run only after both recordings resolved; the reduction
\* has run only after the analysis produced the profile.
C6_ScanOrder ==
  \A i \in Scans :
    /\ (sess[i]["smp"].status # "none" \/ playback[i]) =>
         /\ sess[i]["amb"].outcome = "resolved"
         /\ sess[i]["amb"].status = "torn"
         /\ sess[i]["amb"].after >= SETTLE_DELAY
    /\ (profile[i] \/ pc[i] = "analyzing") =>
         /\ sess[i]["amb"].outcome = "resolved"
         /\ sess[i]["smp"].outcome = "resolved"
    /\ fingerprint[i] => profile[i]

C6_Witness ==
  \E i \in Scans :
    /\ fingerprint[i]
    /\ sess[i]["smp"].outcome = "resolved"
    /\ sess[i]["amb"].after = SETTLE_DELAY

\* the phase of the controller for one invocation
Phase(i) ==
  CASE pc[i] = "idle" -> "Idle"
    [] pc[i] \in {"init_worklet", "init_sweep", "init_media", "ui_delay"} -> "Initializing"
    [] pc[i] \in {"amb_setup", "amb_rec", "settle_delay"} -> "RecordingAmbient"
    [] pc[i] \in {"smp_setup", "smp_rec"} -> "RecordingSample"
    [] pc[i] \in {"analyzing", "processing", "cl_wait", "storing"} -> "Analyzing"
    [] pc[i] \in {"nav_delay", "complete"} -> "Complete"
    [] OTHER -> "Error"

Rank(ph) ==
  CASE ph = "Idle" -> 0
    [] ph = "Initializing" -> 1
    [] ph = "RecordingAmbient" -> 2
    [] ph = "RecordingSample" -> 3
    [] ph = "Analyzing" -> 4
    [] ph = "Complete" -> 5
    [] OTHER -> 6

\* a recording that ended without any captured audio
RecordingFailed(i) ==
  \E k \in Kinds : sess[i][k].status = "torn" /\ ~sess[i][k].anyChunk

\* C7: an invocation moves through Idle, Initializing, RecordingAmbient,
\* RecordingSample, Analyzing, Complete in that order, one phase at a time;
\* a failure in a non-terminal phase leads to Error; Complete and Error
\* are left by no transition.
C7_PhaseOrder ==
  [][\A i \in Scans :
       /\ \/ Phase(i)' = Phase(i)
          \/ Rank(Phase(i)') = Rank(Phase(i)) + 1 /\ Phase(i)' # "Error"
          \/ Phase(i)' = "Error" /\ Phase(i) \notin {"Complete", "Error"}
       /\ RecordingFailed(i)' => Phase(i)' = "Error"]_vars

\* C8: a cleanup call made in a quiescent state of the pipeline does not
\* throw; it stops the tracks of the media stream the object holds and
\* closes the audio context it holds; when it has returned the object holds
\* neither; a call on an object that holds neither changes nothing.
CleanupCallStep ==
  /\ pc[1] # "seq_closing"
  /\ pc'[1] \in {"seq_cleaned", "seq_closing", "seq_threw"}

C8_CleanupIdempotent ==
  [][/\ pc'[1] # "seq_threw"
     /\ CleanupCallStep /\ cl'[1].p # 0 /\ (cl'[1] # cl[1] \/ pc'[1] # pc[1] \/ inst' # inst) =>
          LET p == cl'[1].p
              c == inst[p].audioContext
              m == inst[p].mediaStream
          IN /\ m # 0 => streamState'[m] = "stopped"
             /\ c # 0 => ctxState'[c] \in {"closing", "closed"}
             /\ inst'[p].mediaStream = 0
             /\ (c = 0 /\ m = 0) =>
                  /\ inst' = inst /\ ctxState' = ctxState /\ streamState' = streamState
                  /\ pc'[1] = "seq_cleaned"
     /\ pc'[1] = "seq_cleaned" /\ cl'[1].p # 0 =>
          /\ inst'[cl'[1].p].audioContext = 0
          /\ inst'[cl'[1].p].mediaStream = 0
          /\ \A c \in Res : ctxState'[c] # "closing"]_vars

C8_Witness ==
  /\ pc[1] = "seq_cleaned"
  /\ \E c \in Res : ctxState[c] = "closed"
  /\ \E m \in Res : streamState[m] = "stopped"
  /\ cl[1].p # 0
  /\ inst[cl[1].p].audioContext = 0

\* C9: when the failure of a scan has been handled, the pipeline object it
\* used holds no audio context and no media stream, and the scanning flag
\* is false unless another scan runs; a scan invoked after a failure gets a
\* fresh pipeline object.
Running(j) == pc[j] \notin {"idle", "error", "complete"}

C9_FailureReleases ==
  [][\A i \in Scans :
       /\ pc'[i] = "error" =>
            /\ inst'[pipeline'[i]].audioContext = 0
            /\ inst'[pipeline'[i]].mediaStream = 0
            /\ (\A j \in Scans : ~Running(j)') => ~isScanning'
       /\ (pc[i] = "idle" /\ pc'[i] # "idle"
             /\ \E j \in Scans : pc[j] \in {"err_cl_wait", "error"}) =>
            audioPipelineInstance = 0]_vars

C11_FingerprintSize ==
  \A r \in Runs :
    docData[r].built =>
      /\ Len(docData[r].frequencies) = Len(docData[r].magnitudes)
      /\ Len(docData[r].frequencies) <= MAX_ENTRIES

C11_Witness ==
  \E r \in Runs :
    /\ docData[r].built
    /\ Len(frequencyData[r].frequencies) > MAX_ENTRIES
    /\ Len(docData[r].frequencies) > 0
    /\ Len(docData[r].frequencies) < Len(frequencyData[r].frequencies)

\* C12: when the first stride retains more than 200 pairs, the peaks of the
\* persisted record are peaks of the persisted pairs: every topPeaks entry
\* is a pair (frequencies[k], magnitudes[k]) of the persisted arrays, and
\* peakMagnitude is the largest persisted magnitude.
C12_PeaksFromPersisted ==
  \A r \in Runs :
    (docData[r].built /\ Len(frequencyData[r].frequencies) > MAX_ENTRIES) =>
      LET d == docData[r] IN
      /\ \A j \in 1..Len(d.topPeaks) :
           \E k \in 1..Len(d.frequencies) :
             /\ d.frequencies[k] = d.topPeaks[j].frequency
             /\ d.magnitudes[k] = d.topPeaks[j].magnitude
      /\ d.peakMagnitude = Max({d.magnitudes[k] : k \in 1..Len(d.magnitudes)})

\* the place of a retained pair, found by its frequency
IndexOfFrequency(fd, f) == CHOOSE k \in 1..Len(fd.frequencies) : fd.frequencies[k] = f

\* C13: topPeaks holds the min(5, retained) retained pairs of largest
\* magnitude, in descending order of magnitude, pairs of equal magnitude in
\* the order in which they occur in the retained set.
C13_TopPeaksOrder ==
  \A r \in Runs :
    frequencyData[r].built =>
      LET fd == frequencyData[r]
          n == Len(fd.magnitudes)
          tp == fd.topPeaks
          idx == [j \in 1..Len(tp) |-> IndexOfFrequency(fd, tp[j].frequency)]
          rest == (1..n) \ {idx[j] : j \in 1..Len(tp)}
          last == IF Len(tp) = 0 THEN [idx |-> 0, magnitude |-> 0]
                  ELSE [idx |-> idx[Len(tp)], magnitude |-> tp[Len(tp)].magnitude]
      IN /\ Len(tp) = IF n < TOP_PEAKS THEN n ELSE TOP_PEAKS
         /\ \A j \in 1..Len(tp) :
              /\ \E k \in 1..n : fd.frequencies[k] = tp[j].frequency
              /\ fd.magnitudes[idx[j]] = tp[j].magnitude
         /\ \A j \in 1..(Len(tp) - 1) :
              \/ tp[j].magnitude > tp[j + 1].magnitude
              \/ tp[j].magnitude = tp[j + 1].magnitude /\ idx[j] < idx[j + 1]
         /\ \A k \in rest :
              \/ fd.magnitudes[k] < last.magnitude
              \/ fd.magnitudes[k] = last.magnitude /\ k > last.idx

C13_Witness ==
  \E r \in Runs :
    LET tp == frequencyData[r].topPeaks IN
    /\ frequencyData[r].built
    /\ Len(frequencyData[r].magnitudes) > TOP_PEAKS
    /\ Len(tp) = TOP_PEAKS
    /\ tp[1].magnitude > tp[2].magnitude
    /\ tp[2].magnitude = tp[3].magnitude
    /\ tp[2].magnitude > 0

SansTimestamp(fd) == [fd EXCEPT !.timestamp = 0]

SameLetter(c, d) == c = d \/ {c, d} = {"a", "A"}
EqualIgnoringCase(s, t) ==
  Len(s) = Len(t) /\ \A i \in 1..Len(s) : SameLetter(s[i], t[i])
SubstringIgnoringCase(s, t) ==
  \E i \in 0..(Len(s) - Len(t)) : \A k \in 1..Len(t) : SameLetter(s[i + k], t[k])
\* the characters of s that occur somewhere in t, counted with repetition
CharsFoundIn(s, t) ==
  Cardinality({i \in 1..Len(s) : \E j \in 1..Len(t) : SameLetter(s[i], t[j])})

\* C16 as stated: the name similarity is in [0, 1]; it is 1.0 exactly when
\* the names are equal ignoring case, 0.9 when they differ and one is a
\* substring of the other, and otherwise the number of characters of the
\* shorter name found in the longer one divided by the length of the longer.
C16_NameSimilarity ==
  score.done =>
    LET a == query.materialName
        b == entry.materialName
        sim == score.nameSimilarity
        sub == SubstringIgnoringCase(a, b) \/ SubstringIgnoringCase(b, a)
    IN /\ 0 <= sim /\ sim <= Unit
       /\ sim = Unit <=> EqualIgnoringCase(a, b)
       /\ (~EqualIgnoringCase(a, b) /\ sub) => sim = Tenths(SUBSTRING_TENTHS)
       /\ (~EqualIgnoringCase(a, b) /\ ~sub) =>
            sim = IF Len(a) > Len(b) THEN (CharsFoundIn(b, a) * Unit) \div Len(a)
                                     ELSE (CharsFoundIn(a, b) * Unit) \div Len(b)

\* C16: the name similarity is in [0, 1]; it is 1.0 when the names are equal
\* ignoring case, 0.9 when they differ and one is a substring of the other,
\* and otherwise the number of characters of the shorter name (of the
\* query's name when the lengths are equal) found in the longer one divided
\* by the length of the longer; this quotient is 1.0 too for names of equal
\* length when every character of the query's name occurs in the other.
C16_NameSimilarityCases ==
  score.done =>
    LET a == query.materialName
        b == entry.materialName
        sim == score.nameSimilarity
        sub == SubstringIgnoringCase(a, b) \/ SubstringIgnoringCase(b, a)
    IN /\ 0 <= sim /\ sim <= Unit
       /\ EqualIgnoringCase(a, b) => sim = Unit
       /\ (~EqualIgnoringCase(a, b) /\ sub) => sim = Tenths(SUBSTRING_TENTHS)
       /\ (~EqualIgnoringCase(a, b) /\ ~sub) =>
            sim = IF Len(a) > Len(b) THEN (CharsFoundIn(b, a) * Unit) \div Len(a)
                                     ELSE (CharsFoundIn(a, b) * Unit) \div Len(b)
       /\ (sim = Unit /\ ~EqualIgnoringCase(a, b)) =>
            Len(a) = Len(b) /\ CharsFoundIn(a, b) = Len(a)

C16_Witness ==
  /\ score.done
  /\ score.nameSimilarity = Unit
  /\ ~EqualIgnoringCase(query.materialName, entry.materialName)

\* C17: the frequency similarity is computed exactly when the query and the
\* catalog item both carry a fingerprint; it is in [0, 1] and equals the
\* number of query peaks that have a catalog peak at a distance of at most
\* 50 Hz, divided by the larger of the two numbers of peaks.
C17_FrequencySimilarity ==
  score.done =>
    LET peaks1 == query.frequencyData.topPeaks
        peaks2 == entry.averageFrequencyData.topPeaks
        matched == Cardinality({i \in 1..Len(peaks1) :
                      \E j \in 1..Len(peaks2) : Abs(peaks1[i] - peaks2[j]) <= TOLERANCE})
        larger == IF Len(peaks1) > Len(peaks2) THEN Len(peaks1) ELSE Len(peaks2)
    IN /\ score.freqComputed <=>
            (query.frequencyData.present /\ entry.averageFrequencyData.present)
       /\ score.freqComputed =>
            /\ 0 <= score.freqSimilarity /\ score.freqSimilarity <= Unit
            /\ score.freqSimilarity =
                 IF Len(peaks1) = 0 \/ Len(peaks2) = 0 THEN 0
                 ELSE (matched * Unit) \div larger

\* C18: the confidence of a catalog item is 0.6 x the name similarity when
\* that is above 0.7, plus 0.4 x the frequency similarity when both
\* fingerprints are present and it is above 0.6; the reason names the
\* contributions made.  Names equal ignoring case without both fingerprints
\* give 0.6 and reason name; with one query peak closer than the tolerance
\* to the one catalog peak they give reason both and more than 0.6.
C18_Confidence ==
  score.done =>
    LET both == query.frequencyData.present /\ entry.averageFrequencyData.present
        byName == 10 * score.nameSimilarity > NAME_THRESHOLD_TENTHS * Unit
        byFreq == both /\ 10 * score.freqSimilarity > FREQ_THRESHOLD_TENTHS * Unit
        same == EqualIgnoringCase(query.materialName, entry.materialName)
        peaks1 == query.frequencyData.topPeaks
        peaks2 == entry.averageFrequencyData.topPeaks
    IN /\ score.confidence =
            (IF byName THEN NAME_WEIGHT_TENTHS * score.nameSimilarity ELSE 0)
            + (IF byFreq THEN FREQ_WEIGHT_TENTHS * score.freqSimilarity ELSE 0)
       /\ score.matchReason =
            (IF byName /\ byFreq THEN "both"
             ELSE IF byName THEN "name"
             ELSE IF byFreq THEN "frequency"
             ELSE "none")
       /\ (same /\ ~both) =>
            score.confidence = NAME_WEIGHT_TENTHS * Unit /\ score.matchReason = "name"
       /\ (same /\ both /\ Len(peaks1) = 1 /\ Len(peaks2) = 1
             /\ Abs(peaks1[1] - peaks2[1]) < TOLERANCE) =>
            score.confidence > NAME_WEIGHT_TENTHS * Unit /\ score.matchReason = "both"

C18_Witness ==
  /\ score.done
  /\ score.matchReason = "both"
  /\ score.confidence = One
  /\ query.materialName # entry.materialName
  /\ query.frequencyData.topPeaks = <<3010>>
  /\ entry.averageFrequencyData.topPeaks = <<3000>>

\* C15: what matchMaterialToCatalog returns is exactly the catalog entries
\* whose confidence is above 0.5, ordered by confidence without an increase,
\* cut to the five best; each returned confidence is above 0.5 and at most 1.
C15_MatchResult ==
  mpc \in {"matched", "dialog"} =>
    LET conf == [i \in 1..Len(catalog) |-> ScoreItem(query, catalog[i]).confidence]
        accepted == {i \in 1..Len(catalog) : conf[i] > ACCEPT_TENTHS * Unit}
        returned == {materialMatches[k].materialId : k \in 1..Len(materialMatches)}
    IN /\ Len(materialMatches) =
            (IF Cardinality(accepted) < MAX_MATCHES
               THEN Cardinality(accepted) ELSE MAX_MATCHES)
       /\ Cardinality(returned) = Len(materialMatches)
       /\ returned \subseteq accepted
       /\ \A k \in 1..Len(materialMatches) :
            /\ materialMatches[k].confidence = conf[materialMatches[k].materialId]
            /\ materialMatches[k].confidence > ACCEPT_TENTHS * Unit
            /\ materialMatches[k].confidence <= One
       /\ \A k \in 1..(Len(materialMatches) - 1) :
            materialMatches[k].confidence >= materialMatches[k + 1].confidence
       /\ \A i \in accepted \ returned, k \in 1..Len(materialMatches) :
            conf[i] <= materialMatches[k].confidence

\* more than five entries are accepted, the five returned are not all of one
\* confidence, and an entry with the confidence of the last one is left out
C15_Witness ==
  /\ mpc = "matched"
  /\ Len(materialMatches) = MAX_MATCHES
  /\ materialMatches[1].confidence > materialMatches[MAX_MATCHES].confidence
  /\ materialMatches[1].materialId > materialMatches[MAX_MATCHES].materialId
  /\ \E i \in 1..Len(catalog) :
       /\ \A k \in 1..MAX_MATCHES : materialMatches[k].materialId # i
       /\ ScoreItem(query, catalog[i]).confidence > ACCEPT_TENTHS * Unit

\* C19: the matcher changes no catalog document, no statistics and no
\* discovery; a material is linked to an existing catalog entry only by the
\* user's choice of one of the candidates shown in the dialog.
C19_LinkOnlyOnSelection ==
  [][/\ (mpc = "form" =>
           /\ catalog' = catalog
           /\ materialStats' = materialStats
           /\ userDiscoveries' = userDiscoveries
           /\ matchedMaterialId' = matchedMaterialId)
     /\ \A id \in 1..Len(catalog) :
          (\/ \E d \in userDiscoveries' \ userDiscoveries : d.materialId = id
           \/ materialStats'[id] # materialStats[id]
           \/ (matchedMaterialId' = id /\ matchedMaterialId # id))
            => /\ mpc = "dialog"
               /\ \E k \in 1..Len(materialMatches) : materialMatches[k].materialId = id
               /\ matchedMaterialId' = id]_vars

\* the user chose a candidate of the dialog and the material was linked to
\* that entry: a discovery that is not the first, and a raised count
C19_Witness ==
  /\ mpc = "done"
  /\ matchedMaterialId # 0
  /\ \E k \in 1..Len(materialMatches) : materialMatches[k].materialId = matchedMaterialId
  /\ \E d \in userDiscoveries :
       d.materialId = matchedMaterialId /\ ~d.isFirstDiscovery
  /\ materialStats[matchedMaterialId] = 2

\* the last start or stop message among the first n handled ("none" if there
\* is none)
RECURSIVE LastStartStop(_)
LastStartStop(n) ==
  IF n = 0 THEN "none"
  ELSE IF handled[n] \in {"start", "stop"} THEN handled[n]
  ELSE LastStartStop(n - 1)

\* C20: the worklet posts a data message for a block exactly when the block
\* is not empty and is processed after a start message was handled and
\* before the next stop message is handled; the messages posted carry the
\* blocks in the order they were processed.
C20_ForwardWhileRecording ==
  /\ \A k \in 1..Len(processed) :
       (\E m \in 1..Len(posted) : posted[m].block = k)
         <=> (/\ processed[k].input # Undefined
              /\ processed[k].input > 0
              /\ LastStartStop(processed[k].after) = "start")
  /\ \A m \in 1..Len(posted) :
       /\ posted[m].type = "data"
       /\ posted[m].audioData = processed[posted[m].block].input
       /\ \A n \in 1..(m - 1) : posted[n].block < posted[m].block

\* a block was withheld before the start, one forwarded while recording and
\* one withheld after the stop
C20_Witness ==
  /\ Len(processed) = 3
  /\ processed[1].input = 128 /\ LastStartStop(processed[1].after) = "none"
  /\ processed[2].input = 128 /\ LastStartStop(processed[2].after) = "start"
  /\ processed[3].input = 128 /\ LastStartStop(processed[3].after) = "stop"
  /\ Len(posted) = 1
  /\ posted[1].block = 2

\* C28: every candidate matchMaterialToCatalog returns has the reason name or
\* both; an entry whose name similarity is not above 0.7 has a confidence of
\* at most 0.4 and is not returned.
C28_ReturnedByName ==
  mpc \in {"matched", "dialog"} =>
    /\ \A k \in 1..Len(materialMatches) : materialMatches[k].matchReason \in {"name", "both"}
    /\ \A i \in 1..Len(catalog) :
         ScoreItem(query, catalog[i]).nameSimilarity <= Tenths(NAME_THRESHOLD_TENTHS)
           => /\ ScoreItem(query, catalog[i]).confidence <= FREQ_WEIGHT_TENTHS * Unit
              /\ \A k \in 1..Len(materialMatches) : materialMatches[k].materialId # i

\* an entry matched on frequency only is left out while another entry is
\* returned
C28_Witness ==
  /\ mpc = "matched"
  /\ Len(materialMatches) > 0
  /\ \E i \in 1..Len(catalog) :
       /\ ScoreItem(query, catalog[i]).matchReason = "frequency"
       /\ ScoreItem(query, catalog[i]).confidence = FREQ_WEIGHT_TENTHS * Unit
       /\ \A k \in 1..Len(materialMatches) : materialMatches[k].materialId # i

\* C29: calculateNameSimilarity gives the same value with its arguments
\* exchanged, and so does the confidence of the scored entry.
C29_NameSimilaritySymmetric ==
  score.done =>
    /\ score.nameSimilarity =
         calculateNameSimilarity(ToLower(entry.materialName), ToLower(query.materialName))
    /\ score.confidence =
         ScoreItem([materialName |-> entry.materialName, frequencyData |-> query.frequencyData],
                   [materialName |-> query.materialName,
                    averageFrequencyData |-> entry.averageFrequencyData]).confidence

\* C30: the persisted frequencies[k] and magnitudes[k] (k counted from 0) are
\* the profile's values at index k times the stored stride sampleRate.
C30_StoredStride ==
  \A r \in Runs :
    docData[r].built =>
      \A k \in 1..Len(docData[r].frequencies) :
        /\ docData[r].frequencies[k] = OriginalFreq(rprofile, (k - 1) * docData[r].sampleRate)
        /\ docData[r].magnitudes[k] = OriginalMag(rprofile, (k - 1) * docData[r].sampleRate)

\* C27: when the close() awaited by the cleanup of one scan resolves, the
\* audio context and the media stream held by the pipeline object of another
\* scan that is still running stay as they are.
C27_PendingCleanupSparesLaterScan ==
  [][\A i \in Scans, j \in Scans :
       (/\ i # j
        /\ pc[i] \in {"cl_wait", "err_cl_wait"}
        /\ pc'[i] # pc[i]
        /\ Running(j)
        /\ inst[pipeline[j]].audioContext # 0)
         => /\ inst'[pipeline[j]].audioContext = inst[pipeline[j]].audioContext
            /\ inst'[pipeline[j]].mediaStream = inst[pipeline[j]].mediaStream]_vars

\* C23: at every bin the subtracted magnitude is the sample magnitude minus
\* the ambient magnitude, or 0 when that is negative, at the index and the
\* frequency of the sample profile; no magnitude of the result is negative.
C23_SubtractionClamped ==
  processedAudio.done =>
    LET s == computeSTFT(sampleRecording)
        a == computeSTFT(ambientRecording)
        fd == processedAudio.frequencyData
    IN /\ Len(fd.magnitudes) = Len(s.magnitudes)
       /\ fd.frequencies = s.frequencies
       /\ \A i \in 1..Len(fd.magnitudes) :
            /\ fd.magnitudes[i] >= 0
            /\ fd.magnitudes[i] =
                 (IF s.magnitudes[i] - a.magnitudes[i] >= 0
                    THEN s.magnitudes[i] - a.magnitudes[i] ELSE 0)

\* one bin where the ambient magnitude is the larger and the result is 0,
\* one bin where the difference is kept
C23_Witness ==
  /\ processedAudio.done
  /\ processedAudio.sampleFFT.magnitudes[1] > 0
  /\ processedAudio.sampleFFT.magnitudes[1] < processedAudio.ambientFFT.magnitudes[1]
  /\ processedAudio.frequencyData.magnitudes[1] = 0
  /\ processedAudio.ambientFFT.magnitudes[2] > 0
  /\ processedAudio.frequencyData.magnitudes[2] > 0

\* C24: the frequencies of a profile of computeSTFT ascend strictly and
\* frequencies[i] is (minBin + i) times the sample rate of the analysed
\* recording divided by the transform size.
C24_FrequencyAxis ==
  processedAudio.done =>
    LET f == processedAudio.sampleFFT.frequencies IN
    /\ \A k \in 1..(Len(f) - 1) : f[k] < f[k + 1]
    /\ \A k \in 1..Len(f) : f[k] = (MinBin + FollowedBins[k]) * sampleRecording.sampleRate

\* C25: a recording shorter than one transform frame makes the analysis
\* fail; no profile is returned for it.
C25_ShortRecordingFails ==
  (/\ processedAudio.done
   /\ \/ sampleRecording.length < FFT_SIZE
      \/ ambientRecording.length < FFT_SIZE)
    => processedAudio.outcome = "failed"

\* C26: the averaged magnitude of a bin is the mean of the frame magnitudes
\* at that bin that are not below the threshold, and 0 when there is none.
C26_AverageOverQualifying ==
  processedAudio.done =>
    \A k \in 1..Len(FollowedBins) :
      LET frames == sampleRecording.frames
          qualifying == {f \in 1..Len(frames) : frames[f][k] >= Threshold}
          sum == SumOver([f \in 1..Len(frames) |-> frames[f][k]], qualifying)
          avg == processedAudio.sampleFFT.magnitudes[k]
      IN IF qualifying = {} THEN avg = 0
         ELSE avg * Cardinality(qualifying) = sum

\* at one bin a frame below the threshold is left out of the mean, at the
\* other bin every frame is below it
C26_Witness ==
  /\ processedAudio.done
  /\ Len(sampleRecording.frames) = 2
  /\ sampleRecording.frames[1][1] < Threshold
  /\ sampleRecording.frames[2][1] > Threshold
  /\ processedAudio.sampleFFT.magnitudes[1] = sampleRecording.frames[2][1]
  /\ sampleRecording.frames[1][2] < Threshold
  /\ sampleRecording.frames[2][2] < Threshold
  /\ processedAudio.sampleFFT.magnitudes[2] = 0

\* the data messages the page received before the completion timer fired
ReceivedBeforeAssembly == SelectSeq(received, LAMBDA m : ~m.assembled)

\* C21: the assembled recording is the concatenation, in the order of their
\* arrival, of the blocks received before the completion timer fired, each
\* once; its length is the sum of their lengths; blocks received later do
\* not change it.
C21_AssembledInArrivalOrder ==
  recorder.status = "resolved" =>
    LET before == ReceivedBeforeAssembly IN
    /\ Len(rawData) = Len(before)
    /\ \A k \in 1..Len(before) :
         /\ before[k].block = posted[k].block
         /\ rawData[k].block = before[k].block
         /\ rawData[k].length = before[k].length
         /\ rawData[k].offset = TotalLength(SubSeq(before, 1, k - 1))
    /\ TotalLength(rawData) = TotalLength(before)

\* two blocks were assembled and a third one arrived afterwards
C21_Witness ==
  /\ recorder.status = "resolved"
  /\ Len(rawData) = 2
  /\ rawData[1].block < rawData[2].block
  /\ Len(chunks) = 3
  /\ received[3].assembled

\* C22: a recording returned for the duration d has a length within one
\* block of d times the sample rate (128 samples per quantum of audio time,
\* every quantum carrying a full block).
C22_LengthWithinOneBlock ==
  (/\ recorder.status = "resolved"
   /\ \A k \in 1..Len(processed) : processed[k].input = 128)
    => /\ TotalLength(rawData) >= (recorder.duration - 1) * 128
       /\ TotalLength(rawData) <= (recorder.duration + 1) * 128

====
